---- MODULE Spec2Model ----
(***************************************************************************)
(* A model of the kd-tree of axis-aligned boxes of src/src/lib.rs:         *)
(* KdTree (Leaf | Node), KdNode, insert / remove_one / remove_all and the  *)
(* two lazy queries PointQuery and RectQuery.                              *)
(***************************************************************************)
EXTENDS Integers, Sequences, FiniteSets

\* Positions are the integers 0..MaxCoord (a totally ordered Position type).
MaxCoord == 1
\* At most MaxInserts calls of insert in one behaviour.
MaxInserts == 3
\* The const generic ISLAND_SIZE ranges over 1..MaxIsland.
MaxIsland == 3

VARIABLES
    ISLAND_SIZE,   \* the const generic parameter of KdTree, fixed for a behaviour
    tree,          \* the KdTree value owned by the caller
    panicked,      \* TRUE once an operation has panicked (assert / index out of bounds)
    last,          \* the last call: [op, value, ret]
    inserted,      \* history: how many times each box was passed to insert
    ninserts,      \* number of insert calls so far
    iter           \* the live query iterator, if any: [kind, q, yielded, done]

vars == <<ISLAND_SIZE, tree, panicked, last, inserted, ninserts, iter>>

Coords == 0..MaxCoord

\* KdValue: a box with its four edge accessors; PartialEq is field equality.
KdValue ==
    {b \in [min_x : Coords, max_x : Coords, min_y : Coords, max_y : Coords] :
        b.min_x <= b.max_x /\ b.min_y <= b.max_y}

\* KdTree::Leaf(Vec<Value>)
Leaf(vals) == [kind |-> "Leaf", vals |-> vals]

\* KdTree::Node(Box<KdNode>)
Node(left, right, median, vertical, left_max) ==
    [kind |-> "Node", vertical |-> vertical, median |-> median,
     left_max |-> left_max, left |-> left, right |-> right]

\* KdTree::default(): an empty leaf
Default == Leaf(<<>>)

\* the near edge of a value along the axis: min_y if vertical, else min_x
near(value, vertical) == IF vertical THEN value.min_y ELSE value.min_x

\* the far edge of a value along the axis: max_y if vertical, else max_x
far(value, vertical) == IF vertical THEN value.max_y ELSE value.max_x

\* Vec::split_off(at) leaves [0, at) in place and returns [at, len); at is 0-based.
split_off_rest(vec, at) == SubSeq(vec, at + 1, Len(vec))
split_off_kept(vec, at) == SubSeq(vec, 1, at)

sort_unstable_by_far(leaf, vertical) ==
    LET n == Len(leaf)
        perms == {p \in [1..n -> 1..n] : \A i, j \in 1..n : i # j => p[i] # p[j]}
        sorted(s) == \A i \in 1..(n - 1) : far(s[i], vertical) <= far(s[i + 1], vertical)
    IN  {s \in {[i \in 1..n |-> leaf[p[i]]] : p \in perms} : sorted(s)}

\* slice::sort_unstable_by with the comparator of the axis: some permutation
\* of the leaf that is ordered by the near edge; the order of ties is not fixed.
sort_unstable_by(leaf, vertical) ==
    LET n == Len(leaf)
        perms == {p \in [1..n -> 1..n] : \A i, j \in 1..n : i # j => p[i] # p[j]}
        sorted(s) == \A i \in 1..(n - 1) : near(s[i], vertical) <= near(s[i + 1], vertical)
    IN  {s \in {[i \in 1..n |-> leaf[p[i]]] : p \in perms} : sorted(s)}

\* the fold of lines 92-103: the largest far edge of left, starting from init
RECURSIVE fold_left_max(_, _, _)
fold_left_max(left, prev, vertical) ==
    IF left = <<>> THEN prev
    ELSE LET v_max == far(Head(left), vertical)
         IN  fold_left_max(Tail(left), IF v_max > prev THEN v_max ELSE prev, vertical)

\* ISLAND_SIZE / 2 (lines 81-85): the index of the median element, where the
\* sorted leaf is cut.
split_at == ISLAND_SIZE \div 2

\* Lines 71-111: the split of a full, sorted leaf. The result is the new value
\* of *self and whether the step panicked (left[0] on an empty left).
split(sorted, vertical) ==
    LET half   == split_at
        median == near(sorted[half + 1], vertical)
        right  == Leaf(split_off_rest(sorted, half))
        left   == split_off_kept(sorted, half)
    IN  IF left = <<>>
        THEN [tree |-> Leaf(<<>>), panic |-> TRUE]
        ELSE [tree |-> Node(Leaf(left), right, median, vertical,
                            fold_left_max(left, far(left[1], vertical), vertical)),
              panic |-> FALSE]

\* KdNode::choose_tree: the side the value is routed to, and the node's
\* left_max after the call (raised when the value goes left and reaches further).
choose_left(node, value) == near(value, node.vertical) < node.median

choose_tree_no_raise(node, value) ==
    [side |-> IF choose_left(node, value) THEN "left" ELSE "right",
     left_max |-> node.left_max]

choose_tree_assign(node, value) ==
    IF choose_left(node, value)
    THEN [side |-> "left", left_max |-> far(value, node.vertical)]
    ELSE [side |-> "right", left_max |-> node.left_max]

choose_tree_raise_both(node, value) ==
    LET max == far(value, node.vertical)
    IN  [side |-> IF choose_left(node, value) THEN "left" ELSE "right",
         left_max |-> IF max > node.left_max THEN max ELSE node.left_max]

choose_tree(node, value) ==
    IF choose_left(node, value)
    THEN LET max == far(value, node.vertical)
         IN  [side |-> "left",
              left_max |-> IF max > node.left_max THEN max ELSE node.left_max]
    ELSE [side |-> "right", left_max |-> node.left_max]

with_child_merging(node, chosen, child) ==
    IF child = Leaf(<<>>)
    THEN (IF chosen.side = "left" THEN node.right ELSE node.left)
    ELSE IF chosen.side = "left"
         THEN [node EXCEPT !.left_max = chosen.left_max, !.left = child]
         ELSE [node EXCEPT !.left_max = chosen.left_max, !.right = child]

\* the node with its chosen child replaced and left_max as choose_tree left it
with_child(node, chosen, child) ==
    IF chosen.side = "left"
    THEN [node EXCEPT !.left_max = chosen.left_max, !.left = child]
    ELSE [node EXCEPT !.left_max = chosen.left_max, !.right = child]

child_of(node, chosen) == IF chosen.side = "left" THEN node.left ELSE node.right

child_axis_same(node) == node.vertical

\* KdNode::insert (lines 305-306): the child is inserted into with the
\* inverted axis flag.
child_axis(node) == ~node.vertical

keeps_leaf_off_by_one(leaf) == Len(leaf) <= ISLAND_SIZE

\* Line 68: after the push the leaf stays a leaf while it is below capacity.
keeps_leaf(leaf) == Len(leaf) < ISLAND_SIZE

\* KdTree::insert_internal (with KdNode::insert inlined): the set of possible
\* outcomes [tree, panic]; several only because of the unstable sort.
RECURSIVE insert_internal(_, _, _)
insert_internal(self, value, vertical) ==
    IF self.kind = "Leaf"
    THEN IF ~(Len(self.vals) < ISLAND_SIZE)
         THEN {[tree |-> self, panic |-> TRUE]}
         ELSE LET leaf == Append(self.vals, value)
              IN  IF keeps_leaf(leaf)
                  THEN {[tree |-> Leaf(leaf), panic |-> FALSE]}
                  ELSE {split(s, vertical) : s \in sort_unstable_by(leaf, vertical)}
    ELSE LET chosen == choose_tree(self, value)
         IN  {[tree |-> with_child(self, chosen, r.tree), panic |-> r.panic] :
                 r \in insert_internal(child_of(self, chosen), value, child_axis(self))}

\* Vec::swap_remove(index), index 0-based: the element at index is replaced by
\* the last one and the vector shrinks by one; panics when index >= len.
swap_remove(vec, index) ==
    LET n == Len(vec)
    IN  [i \in 1..(n - 1) |-> IF i = index + 1 THEN vec[n] ELSE vec[i]]

indexes_of_near_only(leaf, value) ==
    {i \in 0..(Len(leaf) - 1) :
        leaf[i + 1].min_x = value.min_x /\ leaf[i + 1].min_y = value.min_y}

\* the 0-based positions of the elements of leaf equal to value, ascending
indexes_of(leaf, value) == {i \in 0..(Len(leaf) - 1) : leaf[i + 1] = value}

Min(S) == CHOOSE m \in S : \A k \in S : m <= k

\* KdTree::remove_one (with KdNode::remove_one inlined): [tree, ret]
RECURSIVE remove_one(_, _)
remove_one(self, value) ==
    IF self.kind = "Leaf"
    THEN LET found == indexes_of(self.vals, value)
         IN  IF found # {}
             THEN [tree |-> Leaf(swap_remove(self.vals, Min(found))), ret |-> TRUE]
             ELSE [tree |-> self, ret |-> FALSE]
    ELSE LET chosen == choose_tree(self, value)
             r == remove_one(child_of(self, chosen), value)
         IN  [tree |-> with_child(self, chosen, r.tree), ret |-> r.ret]

\* The loop of lines 55-57 over the indexes collected before the first removal:
\* swap_remove at each collected index in ascending order, on the vector as the
\* earlier removals left it. [vals, panic]
RECURSIVE remove_indexes(_, _)
remove_indexes(leaf, indexes) ==
    IF indexes = {} THEN [vals |-> leaf, panic |-> FALSE]
    ELSE LET index == Min(indexes)
         IN  IF index >= Len(leaf)
             THEN [vals |-> leaf, panic |-> TRUE]
             ELSE remove_indexes(swap_remove(leaf, index), indexes \ {index})

\* KdTree::remove_all (with KdNode::remove_all inlined): [tree, panic]
RECURSIVE remove_all(_, _)
remove_all(self, value) ==
    IF self.kind = "Leaf"
    THEN LET r == remove_indexes(self.vals, indexes_of(self.vals, value))
         IN  [tree |-> Leaf(r.vals), panic |-> r.panic]
    ELSE LET chosen == choose_tree(self, value)
             r == remove_all(child_of(self, chosen), value)
         IN  [tree |-> with_child(self, chosen, r.tree), panic |-> r.panic]

\* Vec::pop on a non-empty vector: the last element and the rest
Last(vec) == vec[Len(vec)]
Front(vec) == SubSeq(vec, 1, Len(vec) - 1)

\* Option::None for an Option<&Value>: some = FALSE and an item nobody reads
None == [some |-> FALSE, item |-> CHOOSE b \in KdValue : TRUE]
Some(item) == [some |-> TRUE, item |-> item]

\* PointQuery::new: the stack holds the root, nothing is staged
PointQuery_new(root, x, y) ==
    [queue |-> <<root>>, items_to_yield |-> <<>>, x |-> x, y |-> y]

\* the match test of lines 248-251
point_match(leaf, x, y) ==
    /\ leaf.min_x <= x
    /\ leaf.max_x >= x
    /\ leaf.min_y <= y
    /\ leaf.max_y >= y

point_push_strict(queue, node, x, y) ==
    LET dim == IF node.vertical THEN y ELSE x
    IN  queue
        \o (IF dim < node.left_max THEN <<node.left>> ELSE <<>>)
        \o (IF dim >= node.median THEN <<node.right>> ELSE <<>>)

\* the pushes of lines 262-268 for a popped node: left when dim <= left_max,
\* then right when dim >= median
point_push(queue, node, x, y) ==
    LET dim == IF node.vertical THEN y ELSE x
    IN  queue
        \o (IF dim <= node.left_max THEN <<node.left>> ELSE <<>>)
        \o (IF dim >= node.median THEN <<node.right>> ELSE <<>>)

\* the loop of lines 240-271: [q, out] with q the iterator after the call
RECURSIVE PointQuery_loop(_)
PointQuery_loop(q) ==
    IF q.queue = <<>> THEN [q |-> q, out |-> None]
    ELSE LET popped == Last(q.queue)
             rest == Front(q.queue)
         IN  IF popped.kind = "Leaf"
             THEN LET \* the for loop of lines 247-255 stages the matches in leaf order
                      test(leaf) == point_match(leaf, q.x, q.y)
                      staged == q.items_to_yield \o SelectSeq(popped.vals, test)
                  IN  IF staged # <<>>
                      THEN [q |-> [q EXCEPT !.queue = rest,
                                            !.items_to_yield = Front(staged)],
                            out |-> Some(Last(staged))]
                      ELSE PointQuery_loop([q EXCEPT !.queue = rest])
             ELSE PointQuery_loop(
                      [q EXCEPT !.queue = point_push(rest, popped, q.x, q.y)])

PointQuery_next_skips_staged(q) == PointQuery_loop(q)

\* PointQuery::next
PointQuery_next(q) ==
    IF q.items_to_yield # <<>>
    THEN [q |-> [q EXCEPT !.items_to_yield = Front(q.items_to_yield)],
          out |-> Some(Last(q.items_to_yield))]
    ELSE PointQuery_loop(q)

\* RectQuery::new
RectQuery_new(root, min_x, max_x, min_y, max_y) ==
    [queue |-> <<root>>, items_to_yield |-> <<>>,
     min_x |-> min_x, max_x |-> max_x, min_y |-> min_y, max_y |-> max_y]

\* the match test of lines 186-189
rect_match(leaf, min_x, max_x, min_y, max_y) ==
    ~(\/ leaf.min_x > max_x
      \/ min_x > leaf.max_x
      \/ leaf.min_y > max_y
      \/ min_y > leaf.max_y)

rect_push_strict(queue, node, q) ==
    LET min == IF node.vertical THEN q.min_y ELSE q.min_x
        max == IF node.vertical THEN q.max_y ELSE q.max_x
    IN  queue
        \o (IF min <= node.left_max THEN <<node.left>> ELSE <<>>)
        \o (IF max > node.median THEN <<node.right>> ELSE <<>>)

rect_push_far_edge(queue, node, q) ==
    LET max == IF node.vertical THEN q.max_y ELSE q.max_x
    IN  queue
        \o (IF max <= node.left_max THEN <<node.left>> ELSE <<>>)
        \o (IF max >= node.median THEN <<node.right>> ELSE <<>>)

\* the pushes of lines 200-210 for a popped node
rect_push(queue, node, q) ==
    LET min == IF node.vertical THEN q.min_y ELSE q.min_x
        max == IF node.vertical THEN q.max_y ELSE q.max_x
    IN  queue
        \o (IF min <= node.left_max THEN <<node.left>> ELSE <<>>)
        \o (IF max >= node.median THEN <<node.right>> ELSE <<>>)

\* the loop of lines 178-213
RECURSIVE RectQuery_loop(_)
RectQuery_loop(q) ==
    IF q.queue = <<>> THEN [q |-> q, out |-> None]
    ELSE LET popped == Last(q.queue)
             rest == Front(q.queue)
         IN  IF popped.kind = "Leaf"
             THEN LET \* the for loop of lines 185-193 stages the matches in leaf order
                      test(leaf) == rect_match(leaf, q.min_x, q.max_x, q.min_y, q.max_y)
                      staged == q.items_to_yield \o SelectSeq(popped.vals, test)
                  IN  IF staged # <<>>
                      THEN [q |-> [q EXCEPT !.queue = rest,
                                            !.items_to_yield = Front(staged)],
                            out |-> Some(Last(staged))]
                      ELSE RectQuery_loop([q EXCEPT !.queue = rest])
             ELSE RectQuery_loop([q EXCEPT !.queue = rect_push(rest, popped, q)])

\* RectQuery::next
RectQuery_next(q) ==
    IF q.items_to_yield # <<>>
    THEN [q |-> [q EXCEPT !.items_to_yield = Front(q.items_to_yield)],
          out |-> Some(Last(q.items_to_yield))]
    ELSE RectQuery_loop(q)

\* Draining an iterator (Iterator::count / collect): the items yielded by next
\* until it returns None, in order.
RECURSIVE PointQuery_collect(_)
PointQuery_collect(q) ==
    LET r == PointQuery_next(q)
    IN  IF r.out.some THEN <<r.out.item>> \o PointQuery_collect(r.q) ELSE <<>>

RECURSIVE RectQuery_collect(_)
RectQuery_collect(q) ==
    LET r == RectQuery_next(q)
    IN  IF r.out.some THEN <<r.out.item>> \o RectQuery_collect(r.q) ELSE <<>>

\* KdTree::query_point / KdTree::query_rect, drained
query_point(self, x, y) == PointQuery_collect(PointQuery_new(self, x, y))
query_rect(self, min_x, max_x, min_y, max_y) ==
    RectQuery_collect(RectQuery_new(self, min_x, max_x, min_y, max_y))

NoCall == [op |-> "none", value |-> CHOOSE b \in KdValue : TRUE, ret |-> FALSE]

\* no query iterator borrows the tree
NoIter == [kind |-> "none"]

Init ==
    /\ ISLAND_SIZE \in 1..MaxIsland
    /\ tree = Default
    /\ panicked = FALSE
    /\ last = NoCall
    /\ inserted = [b \in KdValue |-> 0]
    /\ ninserts = 0
    /\ iter = NoIter

\* KdTree::insert(value)
Insert(value) ==
    /\ ~panicked
    /\ ninserts < MaxInserts
    /\ \E r \in insert_internal(tree, value, FALSE) :
          /\ tree' = r.tree
          /\ panicked' = r.panic
    /\ last' = [op |-> "insert", value |-> value, ret |-> FALSE]
    /\ inserted' = [inserted EXCEPT ![value] = @ + 1]
    /\ ninserts' = ninserts + 1
    /\ UNCHANGED <<ISLAND_SIZE, iter>>

\* KdTree::remove_one(value)
RemoveOne(value) ==
    /\ ~panicked
    /\ LET r == remove_one(tree, value)
       IN  /\ tree' = r.tree
           /\ last' = [op |-> "remove_one", value |-> value, ret |-> r.ret]
    /\ UNCHANGED <<ISLAND_SIZE, panicked, inserted, ninserts, iter>>

\* KdTree::remove_all(value)
RemoveAll(value) ==
    /\ ~panicked
    /\ LET r == remove_all(tree, value)
       IN  /\ tree' = r.tree
           /\ panicked' = r.panic
    /\ last' = [op |-> "remove_all", value |-> value, ret |-> FALSE]
    /\ UNCHANGED <<ISLAND_SIZE, inserted, ninserts, iter>>

\* the query rectangles: min <= max on both axes
Rects ==
    {r \in [min_x : Coords, max_x : Coords, min_y : Coords, max_y : Coords] :
        r.min_x <= r.max_x /\ r.min_y <= r.max_y}

\* KdTree::query_point(x, y): a PointQuery over the tree as it is
QueryPoint(x, y) ==
    /\ ~panicked
    /\ iter.kind = "none"
    /\ iter' = [kind |-> "point", q |-> PointQuery_new(tree, x, y),
                yielded |-> <<>>, calls |-> 0, done |-> FALSE]
    /\ UNCHANGED <<ISLAND_SIZE, tree, panicked, last, inserted, ninserts>>

\* KdTree::query_rect(min_x, max_x, min_y, max_y)
QueryRect(min_x, max_x, min_y, max_y) ==
    /\ ~panicked
    /\ iter.kind = "none"
    /\ iter' = [kind |-> "rect", q |-> RectQuery_new(tree, min_x, max_x, min_y, max_y),
                yielded |-> <<>>, calls |-> 0, done |-> FALSE]
    /\ UNCHANGED <<ISLAND_SIZE, tree, panicked, last, inserted, ninserts>>

\* One call of next on the live iterator: the item it returns is recorded in
\* yielded, done tells whether this call returned None, calls counts the calls
\* up to and including the first that returned None.
IterNext ==
    /\ iter.kind # "none"
    /\ LET r == IF iter.kind = "point" THEN PointQuery_next(iter.q)
                ELSE RectQuery_next(iter.q)
       IN  iter' = [iter EXCEPT !.q = r.q,
                                !.yielded = IF r.out.some THEN Append(@, r.out.item) ELSE @,
                                !.calls = IF iter.done THEN @ ELSE @ + 1,
                                !.done = ~r.out.some]
    /\ UNCHANGED <<ISLAND_SIZE, tree, panicked, last, inserted, ninserts>>

Next ==
    \E value \in KdValue :
        \/ Insert(value)
        \/ RemoveOne(value)
        \/ RemoveAll(value)

\* Behaviours that only insert.
NextInsert == \E value \in KdValue : Insert(value)

\* Behaviours of insert and remove_one calls.
NextInsertRemoveOne ==
    \E value \in KdValue :
        \/ Insert(value)
        \/ RemoveOne(value)

\* Behaviours that insert and then call remove_all once.
NextRemoveAllOnce ==
    \E value \in KdValue :
        \/ last.op # "remove_all" /\ Insert(value)
        \/ last.op # "remove_all" /\ RemoveAll(value)

\* Behaviours that build a tree by insert and remove_one calls, then borrow it
\* for one query and call next on the iterator; the tree cannot be mutated
\* while the iterator borrows it.
NextQuery ==
    \/ \E value \in KdValue : iter.kind = "none" /\ Insert(value)
    \/ \E value \in KdValue : iter.kind = "none" /\ RemoveOne(value)
    \/ \E x, y \in Coords : QueryPoint(x, y)
    \/ \E r \in Rects : QueryRect(r.min_x, r.max_x, r.min_y, r.max_y)
    \/ IterNext

Spec == Init /\ [][Next]_vars

SpecInsert == Init /\ [][NextInsert]_vars

SpecInsertRemoveOne == Init /\ [][NextInsertRemoveOne]_vars

SpecRemoveAllOnce == Init /\ [][NextRemoveAllOnce]_vars

SpecQuery == Init /\ [][NextQuery]_vars

----------------------------------------------------------------------------
\* Vocabulary of the properties.

\* how many items of a sequence equal value
count(items, value) == Cardinality({i \in DOMAIN items : items[i] = value})

\* every value held in the leaves of a tree, left to right
RECURSIVE values_of(_)
values_of(t) ==
    IF t.kind = "Leaf" THEN t.vals ELSE values_of(t.left) \o values_of(t.right)

\* the positions of the split nodes of a tree: the path of sides from the root
RECURSIVE node_paths(_)
node_paths(t) ==
    IF t.kind = "Leaf" THEN {}
    ELSE {<<>>} \cup {<<"left">> \o p : p \in node_paths(t.left)}
               \cup {<<"right">> \o p : p \in node_paths(t.right)}

\* the positions of the leaves of a tree
RECURSIVE leaf_paths(_)
leaf_paths(t) ==
    IF t.kind = "Leaf" THEN {<<>>}
    ELSE {<<"left">> \o p : p \in leaf_paths(t.left)}
         \cup {<<"right">> \o p : p \in leaf_paths(t.right)}

\* the subtree at a position
RECURSIVE subtree(_, _)
subtree(t, p) ==
    IF p = <<>> THEN t
    ELSE subtree(IF Head(p) = "left" THEN t.left ELSE t.right, Tail(p))

any_in(items, test(_)) == \E i \in DOMAIN items : test(items[i])

----------------------------------------------------------------------------
\* C1: with ISLAND_SIZE >= 2, after any sequence of inserts, every point query
\* yields each box exactly as many times as it was inserted when the box
\* contains the point, and never otherwise (so the order of inserts is immaterial).
C1_Containment ==
    ISLAND_SIZE >= 2 =>
        \A x, y \in Coords : \A b \in KdValue :
            count(query_point(tree, x, y), b)
                = IF b.min_x <= x /\ x <= b.max_x /\ b.min_y <= y /\ y <= b.max_y
                  THEN inserted[b] ELSE 0

\* A split tree in which one point query at or beyond the median finds a box
\* of the left subtree that starts before the median, finds a box of the right
\* subtree, and leaves out some stored box.
C1_Witness ==
    /\ ISLAND_SIZE >= 2
    /\ tree.kind = "Node"
    /\ \E x, y \in Coords :
          LET hit(b) == point_match(b, x, y)
              straddles(b) == hit(b) /\ b.min_x < tree.median /\ tree.median <= x
          IN  /\ any_in(values_of(tree.left), straddles)
              /\ any_in(values_of(tree.right), hit)
              /\ Len(query_point(tree, x, y)) < Len(values_of(tree))

\* C2: with ISLAND_SIZE >= 2, after any sequence of inserts, every rectangle
\* query yields each box exactly as many times as it was inserted when the box
\* is not strictly beside the rectangle on either axis (touching edges overlap),
\* and never otherwise.
C2_Overlap ==
    ISLAND_SIZE >= 2 =>
        \A r \in Rects : \A b \in KdValue :
            count(query_rect(tree, r.min_x, r.max_x, r.min_y, r.max_y), b)
                = IF ~(\/ b.min_x > r.max_x
                       \/ r.min_x > b.max_x
                       \/ b.min_y > r.max_y
                       \/ r.min_y > b.max_y)
                  THEN inserted[b] ELSE 0

\* A split tree in which one rectangle query at or beyond the median yields a
\* box of the right subtree that only touches the rectangle's edge, yields a
\* box of the left subtree that starts before the median, and leaves out some
\* stored box.
C2_Witness ==
    /\ ISLAND_SIZE >= 2
    /\ tree.kind = "Node"
    /\ \E r \in Rects :
          LET hit(b) == rect_match(b, r.min_x, r.max_x, r.min_y, r.max_y)
              touches(b) == hit(b) /\ b.min_x = r.max_x
              straddles(b) == hit(b) /\ b.min_x < tree.median /\ tree.median <= r.min_x
          IN  /\ any_in(values_of(tree.right), touches)
              /\ any_in(values_of(tree.left), straddles)
              /\ Len(query_rect(tree, r.min_x, r.max_x, r.min_y, r.max_y))
                    < Len(values_of(tree))

\* the calls that remove
Removals == {"remove_one", "remove_all"}

\* how many items equal to v a rectangle query over exactly v's bounds yields
stored(t, v) == count(query_rect(t, v.min_x, v.max_x, v.min_y, v.max_y), v)

\* C3: a remove_one of a value that a query over its bounds yields k >= 1 times
\* returns true, leaves k - 1 of them and keeps every other value's multiplicity.
C3_RemovalPrecision ==
    [][(last'.op = "remove_one" /\ stored(tree, last'.value) >= 1) =>
          /\ last'.ret
          /\ \A w \in KdValue :
                stored(tree', w) = IF w = last'.value THEN stored(tree, w) - 1
                                   ELSE stored(tree, w)]_vars

\* C4: once remove_all(v) has returned on a tree built by inserts, no point
\* query and no rectangle query yields an item equal to v.
C4_RemoveAllComplete ==
    (last.op = "remove_all" /\ ~panicked) =>
        /\ \A x, y \in Coords : count(query_point(tree, x, y), last.value) = 0
        /\ \A r \in Rects :
              count(query_rect(tree, r.min_x, r.max_x, r.min_y, r.max_y), last.value) = 0

\* C5: for every positive ISLAND_SIZE no insert panics.
C5_InsertTotal == ~panicked

\* C6: a remove_one or remove_all leaves the left_max of every split node as
\* it was.
C6_RemovalKeepsLeftMax ==
    [][last'.op \in Removals =>
          \A p \in node_paths(tree) :
              subtree(tree', p).left_max = subtree(tree, p).left_max]_vars

\* C7: with ISLAND_SIZE >= 2, at every split node each value of the left
\* subtree has its far edge along the node's axis <= left_max and each value of
\* the right subtree has its near edge along the node's axis >= median.
C7_NodeBounds ==
    ISLAND_SIZE >= 2 =>
        \A p \in node_paths(tree) :
            LET node == subtree(tree, p)
                in_left == values_of(node.left)
                in_right == values_of(node.right)
            IN  /\ \A i \in DOMAIN in_left :
                      far(in_left[i], node.vertical) <= node.left_max
                /\ \A i \in DOMAIN in_right :
                      near(in_right[i], node.vertical) >= node.median

\* After a removal that removed something: a split node below the root whose
\* two subtrees both hold values, the left one a value that reaches left_max.
C7_Witness ==
    /\ ISLAND_SIZE >= 2
    /\ last.op = "remove_one" /\ last.ret
    /\ \E p \in node_paths(tree) \ {<<>>} :
          LET node == subtree(tree, p)
              reaches(b) == far(b, node.vertical) = node.left_max
                            /\ near(b, node.vertical) < node.left_max
          IN  /\ any_in(values_of(node.left), reaches)
              /\ values_of(node.right) # <<>>

\* C8: with ISLAND_SIZE >= 2 every leaf holds fewer than ISLAND_SIZE values
\* after every call, and no insert panics (the capacity assertion holds).
C8_LeafBelowCapacity ==
    ISLAND_SIZE >= 2 =>
        /\ \A p \in leaf_paths(tree) : Len(subtree(tree, p).vals) < ISLAND_SIZE
        /\ last.op = "insert" => ~panicked

\* Right after an insert: a split node whose right leaf holds ISLAND_SIZE - 1
\* values, the most a split leaves in a leaf.
C8_Witness ==
    /\ ISLAND_SIZE >= 3
    /\ last.op = "insert"
    /\ \E p \in node_paths(tree) :
          /\ subtree(tree, p).right.kind = "Leaf"
          /\ Len(subtree(tree, p).right.vals) = ISLAND_SIZE - 1
          /\ Len(subtree(tree, p).right.vals) > Len(values_of(subtree(tree, p).left))

\* the position of the leaf that KdNode::choose_tree routes a value to
RECURSIVE routed_leaf(_, _)
routed_leaf(t, v) ==
    IF t.kind = "Leaf" THEN <<>>
    ELSE IF choose_left(t, v) THEN <<"left">> \o routed_leaf(t.left, v)
         ELSE <<"right">> \o routed_leaf(t.right, v)

\* C9: remove_all(v) on a tree built by inserts does not panic, and the leaf
\* it reaches then holds no element equal to v and the same elements other
\* than v as before.
C9_LeafRemoveAll ==
    [][last'.op = "remove_all" =>
          LET v == last'.value
              before == subtree(tree, routed_leaf(tree, v)).vals
              after == subtree(tree', routed_leaf(tree, v)).vals
          IN  /\ ~panicked'
              /\ \A w \in KdValue :
                    count(after, w) = IF w = v THEN 0 ELSE count(before, w)]_vars

\* C10: every split node is still there after every call, with a left_max at
\* least as large as before.
C10_LeftMaxMonotone ==
    [][\A p \in node_paths(tree) :
          /\ p \in node_paths(tree')
          /\ subtree(tree', p).left_max >= subtree(tree, p).left_max]_vars

\* After a removal: a split node whose left_max is beyond the far edge of every
\* value left in its left subtree, and whose left subtree is not empty.
C10_Witness ==
    /\ last.op \in Removals
    /\ \E p \in node_paths(tree) :
          LET node == subtree(tree, p)
              in_left == values_of(node.left)
          IN  /\ in_left # <<>>
              /\ \A i \in DOMAIN in_left : far(in_left[i], node.vertical) < node.left_max

\* C11: every split node is still at its position after every call, with the
\* same axis and median; a removal leaves the set of node positions as it was;
\* an insert adds at most one node, at a position that was a leaf.
C11_GrowsOnly ==
    [][/\ \A p \in node_paths(tree) :
             /\ p \in node_paths(tree')
             /\ subtree(tree', p).vertical = subtree(tree, p).vertical
             /\ subtree(tree', p).median = subtree(tree, p).median
       /\ last'.op \in Removals => node_paths(tree') = node_paths(tree)
       /\ last'.op = "insert" =>
             /\ Cardinality(node_paths(tree') \ node_paths(tree)) <= 1
             /\ node_paths(tree') \ node_paths(tree) \subseteq leaf_paths(tree)]_vars

\* After a removal: a split node all of whose leaves are empty.
C11_Witness ==
    /\ last.op \in Removals
    /\ tree.kind = "Node"
    /\ values_of(tree) = <<>>

\* the multisets every point query and every rectangle query yield, as counts
point_results(t) ==
    [x \in Coords, y \in Coords |-> [b \in KdValue |-> count(query_point(t, x, y), b)]]
rect_results(t) ==
    [r \in Rects |->
        [b \in KdValue |-> count(query_rect(t, r.min_x, r.max_x, r.min_y, r.max_y), b)]]

\* C12: a remove_one of a value that no leaf holds returns false, leaves every
\* leaf as it was and leaves what every point query and every rectangle query
\* yields as it was (the tree is either untouched or differs where no leaf and
\* no query result does).
C12_AbsentRemoveOne ==
    [][(last'.op = "remove_one" /\ count(values_of(tree), last'.value) = 0) =>
          /\ ~last'.ret
          /\ \/ tree' = tree
             \/ /\ leaf_paths(tree') = leaf_paths(tree)
                /\ \A p \in leaf_paths(tree) : subtree(tree', p) = subtree(tree, p)
                /\ point_results(tree') = point_results(tree)
                /\ rect_results(tree') = rect_results(tree)]_vars

\* After a remove_one that returned false for a value no leaf holds: a split
\* node that still holds values and whose left_max is beyond every value of
\* its left subtree.
C12_Witness ==
    /\ last.op = "remove_one" /\ ~last.ret
    /\ count(values_of(tree), last.value) = 0
    /\ tree.kind = "Node"
    /\ values_of(tree.left) # <<>>
    /\ values_of(tree.right) # <<>>
    /\ \A i \in DOMAIN values_of(tree.left) :
          far(values_of(tree.left)[i], tree.vertical) < tree.left_max

\* C13: in every state reached by insert and remove_one calls, every point
\* query and every rectangle query yields exactly the values held in the
\* leaves that pass its match test, each as many times as the leaves hold it.
C13_NoStoredMatchSkipped ==
    LET held == values_of(tree)
    IN  /\ \A x, y \in Coords :
              LET test(b) == point_match(b, x, y)
                  yielded == query_point(tree, x, y)
                  matches == SelectSeq(held, test)
              IN  \A b \in KdValue : count(yielded, b) = count(matches, b)
        /\ \A r \in Rects :
              LET test(b) == rect_match(b, r.min_x, r.max_x, r.min_y, r.max_y)
                  yielded == query_rect(tree, r.min_x, r.max_x, r.min_y, r.max_y)
                  matches == SelectSeq(held, test)
              IN  \A b \in KdValue : count(yielded, b) = count(matches, b)

\* After a remove_one that removed a value: the root's left_max is beyond every
\* value left in its left subtree, and a point query at left_max (which
\* descends into the left subtree for nothing) yields some held values but not
\* all of them.
C13_Witness ==
    /\ last.op = "remove_one" /\ last.ret
    /\ tree.kind = "Node"
    /\ values_of(tree.left) # <<>>
    /\ \A i \in DOMAIN values_of(tree.left) :
          far(values_of(tree.left)[i], FALSE) < tree.left_max
    /\ \E y \in Coords :
          /\ query_point(tree, tree.left_max, y) # <<>>
          /\ Len(query_point(tree, tree.left_max, y)) < Len(values_of(tree))

\* C14: after any sequence of inserts, every value held in a leaf is found by
\* the routing rule of removal (left when the near edge < median, else right):
\* following it from the root ends at the leaf that holds the value.
C14_RoutingFindsStored ==
    \A p \in leaf_paths(tree) :
        \A i \in DOMAIN subtree(tree, p).vals :
            routed_leaf(tree, subtree(tree, p).vals[i]) = p

\* C15: with ISLAND_SIZE >= 2, an insert that brings the leaf it reaches to
\* ISLAND_SIZE values puts a split node in its place: two leaves, the left one
\* with ISLAND_SIZE / 2 values none of which has a larger near edge (along the
\* node's axis) than any value of the right one; median is the smallest near
\* edge of the right leaf, left_max the largest far edge of the left leaf; the
\* two leaves together hold the old leaf's values and the inserted one.
C15_SplitShape ==
    [][(/\ last'.op = "insert"
        /\ ISLAND_SIZE >= 2
        /\ Len(subtree(tree, routed_leaf(tree, last'.value)).vals) + 1 = ISLAND_SIZE) =>
          LET v == last'.value
              old == subtree(tree, routed_leaf(tree, v)).vals
              new == subtree(tree', routed_leaf(tree, v))
          IN  /\ new.kind = "Node"
              /\ new.left.kind = "Leaf"
              /\ new.right.kind = "Leaf"
              /\ LET l == new.left.vals
                     r == new.right.vals
                     axis == new.vertical
                 IN  /\ Len(l) = ISLAND_SIZE \div 2
                     /\ \A i \in DOMAIN l : \A j \in DOMAIN r :
                           near(l[i], axis) <= near(r[j], axis)
                     /\ \E j \in DOMAIN r : near(r[j], axis) = new.median
                     /\ \A j \in DOMAIN r : near(r[j], axis) >= new.median
                     /\ \E i \in DOMAIN l : far(l[i], axis) = new.left_max
                     /\ \A i \in DOMAIN l : far(l[i], axis) <= new.left_max
                     /\ \A b \in KdValue :
                           count(l, b) + count(r, b)
                               = count(old, b) + (IF b = v THEN 1 ELSE 0)]_vars

\* Right after an insert: a split node below the root whose two leaves have the
\* sizes a split gives them and hold the inserted value, with the left values
\* starting before the median and one of them reaching beyond it.
C15_Witness ==
    /\ ISLAND_SIZE >= 2
    /\ last.op = "insert"
    /\ \E p \in node_paths(tree) \ {<<>>} :
          LET node == subtree(tree, p)
          IN  /\ node.left.kind = "Leaf"
              /\ node.right.kind = "Leaf"
              /\ Len(node.left.vals) = ISLAND_SIZE \div 2
              /\ Len(node.right.vals) = ISLAND_SIZE - (ISLAND_SIZE \div 2)
              /\ count(node.left.vals \o node.right.vals, last.value) >= 1
              /\ \A i \in DOMAIN node.left.vals :
                    near(node.left.vals[i], node.vertical) < node.median
              /\ node.left_max >= node.median

\* C16: the root splits on x and every split node below splits on the axis
\* opposite to its parent's: a node at depth d is vertical exactly when d is odd.
C16_AxisAlternates ==
    \A p \in node_paths(tree) : subtree(tree, p).vertical = (Len(p) % 2 = 1)

\* A tree with a split node below the root, its sibling still a leaf.
C16_Witness ==
    /\ tree.kind = "Node"
    /\ \/ tree.left.kind = "Node" /\ tree.right.kind = "Leaf"
       \/ tree.left.kind = "Leaf" /\ tree.right.kind = "Node"

\* the values held in the leaves that pass the match test of the live iterator
iter_matches ==
    LET point_test(b) == point_match(b, iter.q.x, iter.q.y)
        rect_test(b) ==
            rect_match(b, iter.q.min_x, iter.q.max_x, iter.q.min_y, iter.q.max_y)
    IN  IF iter.kind = "point" THEN SelectSeq(values_of(tree), point_test)
        ELSE SelectSeq(values_of(tree), rect_test)

\* what one more call of next on the live iterator returns
iter_next_out ==
    IF iter.kind = "point" THEN PointQuery_next(iter.q).out
    ELSE RectQuery_next(iter.q).out

\* C17: on any tree built by insert and remove_one calls and for any point or
\* rectangle query, next returns None after at most (number of held matches
\* + 1) calls; until then every call yields a held match and none is yielded
\* more often than the leaves hold it; when None is returned every held match
\* has been yielded exactly as often as the leaves hold it; and after a None
\* the next call returns None again.
C17_IteratorDrains ==
    iter.kind # "none" =>
        /\ \A b \in KdValue :
              /\ count(iter.yielded, b) <= count(iter_matches, b)
              /\ iter.done => count(iter.yielded, b) = count(iter_matches, b)
        /\ iter.calls <= Len(iter_matches) + 1
        /\ iter.calls = Len(iter.yielded) + (IF iter.done THEN 1 ELSE 0)
        /\ iter.done => ~iter_next_out.some

\* A drained iterator over a split tree that yielded two values of one leaf
\* (the second one from the staging buffer) and passed over an empty leaf.
C17_Witness ==
    /\ iter.kind # "none" /\ iter.done
    /\ tree.kind = "Node"
    /\ \E p \in leaf_paths(tree) : subtree(tree, p).vals = <<>>
    /\ \E p \in leaf_paths(tree) :
          /\ Len(subtree(tree, p).vals) >= 2
          /\ \A i \in DOMAIN subtree(tree, p).vals :
                count(iter.yielded, subtree(tree, p).vals[i]) >= 1
    /\ Len(iter.yielded) >= 2


\* the nodes at which the routing of v through t goes left
routed_left(t, v) ==
    LET p == routed_leaf(t, v)
    IN  {SubSeq(p, 1, i - 1) : i \in {j \in DOMAIN p : p[j] = "left"}}

\* C18: an insert of v into a tree whose root is a split node does not panic
\* and touches the routing path only: every leaf but the routed one is where
\* it was with the same contents; the routed position holds its old values
\* and v once more (appended when it stays a leaf); every existing node keeps
\* its axis and median; left_max becomes max(old, v's far edge on the node's
\* axis) at the nodes where v was routed left and is unchanged at all others.
C18_InsertFrame ==
    [][(tree.kind = "Node" /\ last'.op = "insert" /\ ninserts' = ninserts + 1) =>
        LET v == last'.value
            p == routed_leaf(tree, v)
        IN  /\ ~panicked'
            /\ \A q \in leaf_paths(tree) \ {p} :
                  /\ q \in leaf_paths(tree')
                  /\ subtree(tree', q) = subtree(tree, q)
            /\ p \in leaf_paths(tree') \cup node_paths(tree')
            /\ \A b \in KdValue :
                  count(values_of(subtree(tree', p)), b) =
                      count(subtree(tree, p).vals, b) + (IF b = v THEN 1 ELSE 0)
            /\ p \in leaf_paths(tree') =>
                  subtree(tree', p).vals = Append(subtree(tree, p).vals, v)
            /\ \A n \in node_paths(tree) :
                  /\ n \in node_paths(tree')
                  /\ subtree(tree', n).vertical = subtree(tree, n).vertical
                  /\ subtree(tree', n).median = subtree(tree, n).median
                  /\ subtree(tree', n).left_max =
                        IF n \in routed_left(tree, v)
                        THEN LET old == subtree(tree, n).left_max
                                 edge == far(v, subtree(tree, n).vertical)
                             IN  IF edge > old THEN edge ELSE old
                        ELSE subtree(tree, n).left_max
    ]_vars

\* The third insert went into the left side of a root that the second insert
\* had split: the left side was split again by it, the right leaf still holds
\* its one value, and the root's left_max is the far edge of the new value,
\* above the far edge of the value that was on the left before.
C18_Witness ==
    /\ ~panicked
    /\ last.op = "insert"
    /\ ninserts = 3
    /\ ISLAND_SIZE = 2
    /\ tree.kind = "Node"
    /\ choose_left(tree, last.value)
    /\ tree.left.kind = "Node"
    /\ tree.right.kind = "Leaf" /\ Len(tree.right.vals) = 1
    /\ tree.left_max = far(last.value, tree.vertical)
    /\ \E i \in DOMAIN values_of(tree.left) :
          far(values_of(tree.left)[i], tree.vertical) < tree.left_max

====
